---- MODULE Spec2Model ----
(***************************************************************************)
(* A model of js/ui.js, the DOM glue of the Pagetalk side panel: tab       *)
(* switching, the chat message list and the streaming lifecycle of a bot   *)
(* message, the send button, the status lines and the toast with their     *)
(* timers, and the copy button of a code block.                            *)
(*                                                                         *)
(* The DOM is modelled by the fields the functions read and write.  Text   *)
(* is a sequence of UTF-16 code units where the code computes on it        *)
(* (atob, decodeURIComponent) and an opaque string where it only compares  *)
(* or stores it.  Each group of functions has its own specification over   *)
(* the shared variables; a group leaves the other groups' variables alone. *)
(***************************************************************************)
EXTENDS Integers, Sequences, FiniteSets, TLC

VARIABLES
    \* ---- tabs (switchTab, switchSettingsSubTab)
    tabActive,        \* elements.tabs: data-tab -> has class 'active'
    contentActive,    \* elements.tabContents: id -> has class 'active'
    navActive,        \* elements.settingsNavBtns: data-subtab -> 'active'
    subActive,        \* elements.settingsSubContents: id -> 'active'
    lastTab,          \* history: argument of the last switchTab call
    lastSub,          \* history: argument of the last switchSettingsSubTab call
    \* ---- copy button of one code block (addCopyButtonToCodeBlock)
    dataCode,         \* the block's data-code attribute
    codeText,         \* innerText of the block's <code> element
    copyButtons,      \* number of .code-copy-button children of the block
    clickCount,       \* history: clicks dispatched on the copy button
    copied,           \* history: texts handed to copyCodeToClipboardCallback
    escaped,          \* history: an exception left the click handler
    \* ---- chat list and message elements
    chatMessages,     \* children of elements.chatMessages, in document order
    el,               \* created element -> its kind, children and history
    lastAdd,          \* history: the last insertion into the chat list
    lastOp,           \* history: the last call on a message element
    \* ---- send button (restoreSendButtonAndInput)
    isStreaming,      \* state.isStreaming
    sendButton,       \* elements.sendMessage: class, title, icon, listeners
    abortController,  \* window.GeminiAPI.currentAbortController
    lastRestore,      \* history: the send state the last restore call found
    currentTranslations, \* the dictionary in use: "none" is the empty one
    documentLang,     \* document.documentElement.lang
    \* ---- status lines, toast, textarea, API key field
    present,          \* key of `elements` -> it holds an element
    connectionStatus, \* elements.connectionStatus: text, type class, display
    connectionIndicator,
    contextStatus,    \* elements.contextStatus.textContent
    userInput,        \* elements.userInput: scrollHeight, style, listeners
    apiKeyInput,      \* elements.apiKeyInput.type and the two eye icons
    chatStatusMessage,
    toast,            \* the document's .toast element
    timers,           \* pending setTimeout callbacks, oldest first
    hist,             \* history: who hid the connection status, latest calls
    lastCall          \* history: the last call and what it found

tabVars == <<tabActive, contentActive, navActive, subActive, lastTab, lastSub>>
copyVars == <<dataCode, codeText, copyButtons, clickCount, copied, escaped>>
chatVars == <<chatMessages, el, lastAdd, lastOp>>
sendVars ==
    <<isStreaming, sendButton, abortController, lastRestore, currentTranslations,
      documentLang>>
statusDom ==
    <<connectionStatus, connectionIndicator, contextStatus, userInput, apiKeyInput,
      chatStatusMessage, toast, timers, hist>>
statusVars == <<present, statusDom, lastCall>>
vars == <<tabVars, copyVars, chatVars, sendVars, statusVars>>

(***************************************************************************)
(* Small helpers.                                                          *)
(***************************************************************************)
Min(a, b) == IF a < b THEN a ELSE b
Max(a, b) == IF a < b THEN b ELSE a

RECURSIVE SeqsUpTo(_, _)
SeqsUpTo(S, n) ==
    IF n = 0 THEN {<<>>}
    ELSE LET shorter == SeqsUpTo(S, n - 1)
         IN shorter \cup {Append(s, c) : s \in {t \in shorter : Len(t) = n - 1}, c \in S}

(***************************************************************************)
(* Tabs.                                                                   *)
(***************************************************************************)
\* The footer tabs and the settings sub-tabs of the panel.
TabIds == {"chat", "settings"}
SubTabIds == {"general", "agent", "model"}
SubContentIds == {"settings-general", "settings-agent", "settings-model"}
\* Arguments a caller may pass; "unknown" is an id no element carries.
TabArgs == TabIds \cup {"unknown"}
SubTabArgs == SubTabIds \cup {"unknown"}

\* classList.toggle('active', force): the class is present iff force.
TabClassesNeverCleared(old, force) == old \/ force
ToggleActive(old, force) == force

\* switchSettingsSubTab(subTabId, elements)
SubTabsAfter(subTabId) ==
    [nav |-> [b \in SubTabIds |-> ToggleActive(navActive[b], b = subTabId)],
     sub |-> [c \in SubContentIds |->
                 ToggleActive(subActive[c], c = "settings-" \o subTabId)]]

SwitchSettingsSubTab(subTabId) ==
    /\ navActive' = SubTabsAfter(subTabId).nav
    /\ subActive' = SubTabsAfter(subTabId).sub
    /\ lastSub' = subTabId
    /\ UNCHANGED <<tabActive, contentActive, lastTab>>

\* switchTab(tabId, elements, switchSettingsSubTab); the callback is the
\* function above, called with 'general' when no nav button is active.
SwitchTab(tabId) ==
    /\ tabActive' = [t \in TabIds |-> ToggleActive(tabActive[t], t = tabId)]
    /\ contentActive' = [c \in TabIds |-> ToggleActive(contentActive[c], c = tabId)]
    /\ lastTab' = tabId
    /\ IF tabId = "settings" /\ ~(\E b \in SubTabIds : navActive[b])
       THEN /\ navActive' = SubTabsAfter("general").nav
            /\ subActive' = SubTabsAfter("general").sub
            /\ lastSub' = "general"
       ELSE UNCHANGED <<navActive, subActive, lastSub>>

DoSwitchTab ==
    (\E tabId \in TabArgs : SwitchTab(tabId)) /\ UNCHANGED <<copyVars, chatVars, sendVars, statusVars>>
DoSwitchSettingsSubTab ==
    /\ \E subTabId \in SubTabArgs : SwitchSettingsSubTab(subTabId)
    /\ UNCHANGED <<copyVars, chatVars, sendVars, statusVars>>

(***************************************************************************)
(* The copy button of a code block.                                        *)
(***************************************************************************)
\* Longest data-code attribute drawn, in characters.
MaxAttrLen == 4
\* Most clicks followed in one behaviour.
MaxClicks == 2

\* The base64 alphabet, in value order (index - 1 is the 6-bit value).
B64Alphabet ==
    <<"A","B","C","D","E","F","G","H","I","J","K","L","M","N","O","P",
      "Q","R","S","T","U","V","W","X","Y","Z","a","b","c","d","e","f",
      "g","h","i","j","k","l","m","n","o","p","q","r","s","t","u","v",
      "w","x","y","z","0","1","2","3","4","5","6","7","8","9","+","/">>
B64Value(c) == (CHOOSE i \in 1..64 : B64Alphabet[i] = c) - 1
IsB64Char(c) == \E i \in 1..64 : B64Alphabet[i] = c
\* Characters a drawn attribute is made of: base64 letters, padding,
\* a blank and a character outside the alphabet.
AttrChars == {"J", "Q", "T", "x", "=", " ", "!"}

Thrown == [ok |-> FALSE, val |-> <<>>]
Returned(v) == [ok |-> TRUE, val |-> v]

\* atob: forgiving-base64 decode.  Whitespace is dropped, up to two '=' are
\* dropped from a string whose length is a multiple of 4, a length of 1 mod 4
\* or a character outside the alphabet throws, and each character gives six
\* bits of the bytes returned.
StripBlanks(s) == SelectSeq(s, LAMBDA c : c # " ")
StripPadding(s) ==
    IF Len(s) % 4 = 0 /\ Len(s) > 0 /\ s[Len(s)] = "="
    THEN IF s[Len(s) - 1] = "="
         THEN SubSeq(s, 1, Len(s) - 2)
         ELSE SubSeq(s, 1, Len(s) - 1)
    ELSE s

RECURSIVE B64Bytes(_)
B64Bytes(s) ==
    IF Len(s) = 0 THEN <<>>
    ELSE IF Len(s) >= 4
    THEN LET n == B64Value(s[1]) * 262144 + B64Value(s[2]) * 4096
                  + B64Value(s[3]) * 64 + B64Value(s[4])
         IN <<n \div 65536, (n \div 256) % 256, n % 256>>
                \o B64Bytes(SubSeq(s, 5, Len(s)))
    ELSE IF Len(s) = 3
    THEN LET n == B64Value(s[1]) * 4096 + B64Value(s[2]) * 64 + B64Value(s[3])
         IN <<n \div 1024, (n \div 4) % 256>>
    ELSE LET n == B64Value(s[1]) * 64 + B64Value(s[2])
         IN <<n \div 16>>

Atob(s) ==
    LET t == StripPadding(StripBlanks(s))
    IN IF Len(t) % 4 = 1 \/ (\E i \in 1..Len(t) : ~IsB64Char(t[i]))
       THEN Thrown
       ELSE Returned(B64Bytes(t))

\* decodeURIComponent on code units: '%' must be followed by two hex digits;
\* an escaped byte below 0x80 is itself, a lead byte takes as many escaped
\* continuation bytes as it announces, and the bytes must be well-formed
\* UTF-8; anything else throws URIError.
Percent == 37
HexValue(u) ==
    IF u >= 48 /\ u <= 57 THEN u - 48
    ELSE IF u >= 65 /\ u <= 70 THEN u - 55
    ELSE IF u >= 97 /\ u <= 102 THEN u - 87
    ELSE -1
HasEscapeAt(s, i) ==
    /\ i + 2 <= Len(s)
    /\ s[i] = Percent
    /\ HexValue(s[i + 1]) >= 0
    /\ HexValue(s[i + 2]) >= 0
EscapedByte(s, i) == HexValue(s[i + 1]) * 16 + HexValue(s[i + 2])
Utf8Length(b) ==
    IF b < 128 THEN 1
    ELSE IF b >= 192 /\ b < 224 THEN 2
    ELSE IF b >= 224 /\ b < 240 THEN 3
    ELSE IF b >= 240 /\ b < 248 THEN 4
    ELSE 0
LeadBits(b, n) == IF n = 2 THEN b - 192 ELSE IF n = 3 THEN b - 224 ELSE b - 240
RECURSIVE CodePoint(_, _, _, _)
CodePoint(s, i, k, acc) ==
    \* k continuation bytes are still to be read at position i
    IF k = 0 THEN acc
    ELSE IF HasEscapeAt(s, i)
            /\ EscapedByte(s, i) >= 128 /\ EscapedByte(s, i) < 192
    THEN CodePoint(s, i + 3, k - 1, acc * 64 + (EscapedByte(s, i) - 128))
    ELSE -1
WellFormed(v, n) ==
    /\ v >= 0
    /\ n = 2 => v >= 128
    /\ n = 3 => v >= 2048 /\ ~(v >= 55296 /\ v <= 57343)
    /\ n = 4 => v >= 65536 /\ v <= 1114111
CodeUnits(v) ==
    IF v < 65536 THEN <<v>>
    ELSE <<55296 + ((v - 65536) \div 1024), 56320 + ((v - 65536) % 1024)>>

RECURSIVE DecodeFrom(_, _, _)
DecodeFrom(s, i, out) ==
    IF i > Len(s) THEN Returned(out)
    ELSE IF s[i] # Percent THEN DecodeFrom(s, i + 1, Append(out, s[i]))
    ELSE IF ~HasEscapeAt(s, i) THEN Thrown
    ELSE LET b == EscapedByte(s, i)
             n == Utf8Length(b)
         IN IF n = 0 THEN Thrown
            ELSE IF n = 1 THEN DecodeFrom(s, i + 3, Append(out, b))
            ELSE LET v == CodePoint(s, i + 3, n - 1, LeadBits(b, n))
                 IN IF WellFormed(v, n)
                    THEN DecodeFrom(s, i + 3 * n, out \o CodeUnits(v))
                    ELSE Thrown
DecodeURIComponent(s) == DecodeFrom(s, 1, <<>>)

\* decodeURIComponent(atob(encodedCode))
DecodeDataCode(encoded) ==
    IF Atob(encoded).ok THEN DecodeURIComponent(Atob(encoded).val) ELSE Thrown

\* block.querySelector('code')?.innerText || ''
NoCode == [has |-> FALSE, text |-> <<>>]
FallbackText(code) == IF code.has THEN code.text ELSE <<>>

\* The click listener of the copy button: what it hands to the callback, and
\* whether an exception leaves it.
ClickWithoutCatch(attr, code) ==
    IF attr.has /\ Len(attr.val) > 0
    THEN IF DecodeDataCode(attr.val).ok
         THEN [called |-> TRUE, text |-> DecodeDataCode(attr.val).val, threw |-> FALSE]
         ELSE [called |-> FALSE, text |-> <<>>, threw |-> TRUE]
    ELSE [called |-> TRUE, text |-> FallbackText(code), threw |-> FALSE]
ClickOutcome(attr, code) ==
    IF attr.has /\ Len(attr.val) > 0
    THEN IF DecodeDataCode(attr.val).ok
         THEN [called |-> TRUE, text |-> DecodeDataCode(attr.val).val, threw |-> FALSE]
         ELSE [called |-> TRUE, text |-> FallbackText(code), threw |-> FALSE]
    ELSE [called |-> TRUE, text |-> FallbackText(code), threw |-> FALSE]

\* addCopyButtonToCodeBlock(block, ...): one button, never a second.
AddCopyButtonToCodeBlock ==
    /\ copyButtons' = IF copyButtons > 0 THEN copyButtons ELSE copyButtons + 1
    /\ UNCHANGED <<dataCode, codeText, clickCount, copied, escaped>>
    /\ UNCHANGED <<tabVars, chatVars, sendVars, statusVars>>

\* A click on the copy button runs its one listener.
ClickCopyButton ==
    /\ copyButtons > 0
    /\ clickCount < MaxClicks
    /\ clickCount' = clickCount + 1
    /\ LET r == ClickOutcome(dataCode, codeText)
       IN /\ copied' = IF r.called THEN Append(copied, r.text) ELSE copied
          /\ escaped' = (escaped \/ r.threw)
    /\ UNCHANGED <<dataCode, codeText, copyButtons>>
    /\ UNCHANGED <<tabVars, chatVars, sendVars, statusVars>>

(***************************************************************************)
(* Translations: _(key, replacements, translations).                       *)
(***************************************************************************)
\* The dictionaries: none loaded yet, and two languages, each lacking some
\* keys, so that both branches of translations[key] || key are taken.
Languages == {"none", "en", "zh"}
Dictionary(language) ==
    IF language = "en"
    THEN [htmlLang |-> "en",
          sendMessageTitle |-> "Send message",
          connectionIndicatorConnected |-> "Connected",
          contextStatusPrefix |-> "Context:",
          contextStatusNone |-> "none"]
    ELSE IF language = "zh"
    THEN [htmlLang |-> "zh-CN",
          sendMessageTitle |-> "fa song",
          stopStreamingTitle |-> "ting zhi",
          contextStatusPrefix |-> "shang xia wen:"]
    ELSE [k \in {} |-> ""]
Translate(key, language) ==
    IF key \in DOMAIN Dictionary(language) THEN Dictionary(language)[key] ELSE key
Tr(key) == Translate(key, currentTranslations)

(***************************************************************************)
(* The send button.                                                        *)
(***************************************************************************)
SendState == [streaming |-> isStreaming, button |-> sendButton, ctrl |-> abortController]

\* restoreSendButtonAndInput(state, elements, translations, send, abort):
\* the send state it leaves, and whether it went past its guard.
RestoreUnguarded(s) ==
    [streaming |-> FALSE,
     button |-> [stop |-> FALSE,
                 title |-> Tr("sendMessageTitle"),
                 icon |-> "send",
                 listeners |-> (s.button.listeners \ {"abort"}) \cup {"send"}],
     ctrl |-> IF s.ctrl = "controller" THEN "null" ELSE s.ctrl,
     ran |-> TRUE]
RestoreSendState(s) ==
    IF ~s.streaming
    THEN [streaming |-> s.streaming, button |-> s.button, ctrl |-> s.ctrl, ran |-> FALSE]
    ELSE [streaming |-> FALSE,
          button |-> [stop |-> FALSE,
                      title |-> Tr("sendMessageTitle"),
                      icon |-> "send",
                      listeners |-> (s.button.listeners \ {"abort"}) \cup {"send"}],
          ctrl |-> IF s.ctrl = "controller" THEN "null" ELSE s.ctrl,
          ran |-> TRUE]

NotRestored == [called |-> FALSE, pre |-> <<>>, ran |-> FALSE, attaches |-> 0]

\* The restore call as a step on the send variables.
Restore ==
    LET r == RestoreSendState(SendState)
    IN /\ isStreaming' = r.streaming
       /\ UNCHANGED <<currentTranslations, documentLang>>
       /\ sendButton' = r.button
       /\ abortController' = r.ctrl
       /\ lastRestore' = [called |-> TRUE,
                          pre |-> SendState,
                          ran |-> r.ran,
                          attaches |-> lastRestore.attaches + (IF r.ran THEN 1 ELSE 0)]

(***************************************************************************)
(* The chat list and its message elements.                                 *)
(***************************************************************************)
\* Most elements created in one behaviour.
MaxMsgs == 2

\* Element references: null, the welcome message the page starts with, an
\* element that is not a child of the chat list, and the created elements.
NoElement == 0
Welcome == 1
Outside == 2
FirstCreated == 3
Created == FirstCreated .. (FirstCreated + MaxMsgs - 1)

\* Message texts; the renderer turns "a" into one code block and "b" into two.
Contents == {"", "a", "b"}
CodeBlocksOf(content) == IF content = "a" THEN 1 ELSE IF content = "b" THEN 2 ELSE 0

\* Child nodes of a message element.
Html(content) == [t |-> "html", src |-> content, buttons |-> 0, dyn |-> FALSE]
Actions(content) == [t |-> "actions", src |-> content, buttons |-> 3, dyn |-> FALSE]
Cursor == [t |-> "cursor", src |-> "", buttons |-> 0, dyn |-> FALSE]
Dots == [t |-> "dots", src |-> "", buttons |-> 0, dyn |-> FALSE]

\* element.innerHTML = window.MarkdownRenderer.render(content)
Render(content) == IF content = "" THEN <<>> ELSE <<Html(content)>>

HasKid(kids, t) == \E i \in 1..Len(kids) : kids[i].t = t
FirstKid(kids, t) == kids[CHOOSE i \in 1..Len(kids) :
                             kids[i].t = t /\ \A j \in 1..(i - 1) : kids[j].t # t]
RemoveFirstKid(kids, t) ==
    IF ~HasKid(kids, t) THEN kids
    ELSE LET i == CHOOSE i \in 1..Len(kids) :
                     kids[i].t = t /\ \A j \in 1..(i - 1) : kids[j].t # t
         IN SubSeq(kids, 1, i - 1) \o SubSeq(kids, i + 1, Len(kids))
CountKids(kids, t) == Cardinality({i \in 1..Len(kids) : kids[i].t = t})

\* codeBlocks.forEach(addCopyButtonToCodeBlock): every code block that has no
\* copy button gets one.
WithCopyButtons(kids) ==
    [i \in 1..Len(kids) |->
        IF kids[i].t = "html"
        THEN [kids[i] EXCEPT !.buttons = CodeBlocksOf(kids[i].src)]
        ELSE kids[i]]
CopyCallbackCalls(kids) ==
    IF HasKid(kids, "html") THEN CodeBlocksOf(FirstKid(kids, "html").src) ELSE 0

\* addMessageActionButtons(messageElement, content, ...): a message element
\* without a .message-actions child gets one, as its last child.
WithActionButtons(kids, content) ==
    IF HasKid(kids, "actions") THEN kids ELSE Append(kids, Actions(content))

\* renderDynamicContent(messageElement, elements)
WithDynamicContent(kids) ==
    [i \in 1..Len(kids) |->
        IF kids[i].t = "html" THEN [kids[i] EXCEPT !.dyn = TRUE] ELSE kids[i]]

\* insertAfterElement.insertAdjacentElement('afterend', e), or appendChild(e)
\* when the reference is null or its parent is not the chat list.
IndexOf(list, x) == CHOOSE i \in 1..Len(list) : list[i] = x
IsChild(list, x) == \E i \in 1..Len(list) : list[i] = x
AlwaysAppend(list, after, e) == Append(list, e)
InsertInto(list, after, e) ==
    IF after # NoElement /\ IsChild(list, after)
    THEN SubSeq(list, 1, IndexOf(list, after)) \o <<e>>
             \o SubSeq(list, IndexOf(list, after) + 1, Len(list))
    ELSE Append(list, e)

\* An element and, for the streaming lifecycle, its history: "streaming"
\* from a streaming insert through its updates, "final" after the one
\* finalize that ends it, "static" for every element outside that lifecycle.
\* A lifecycle element keeps the content of the last call on it, whether it
\* was updated, the callbacks counted since it was inserted, and the
\* children the restore callback found when it was called.
Element(kind, phase, kids) ==
    [kind |-> kind, phase |-> phase, kids |-> kids, last |-> "", updated |-> FALSE,
     actionCalls |-> 0, copyCalls |-> 0, restoreCalls |-> 0, restoreSaw |-> <<>>]
NotCreated == Element("none", "none", <<>>)
NextElement == FirstCreated + Cardinality({e \in Created : el[e].kind # "none"})
References == {NoElement, Outside} \cup {chatMessages[i] : i \in 1..Len(chatMessages)}
FoundActions(kids) == IF HasKid(kids, "actions") THEN <<FirstKid(kids, "actions")>> ELSE <<>>
\* The last call on a message element: its content argument and the
\* .message-actions child it found.
Op(e, op, content, found) == [e |-> e, op |-> op, content |-> content, found |-> found]

\* addMessageToChat(content, sender, {isStreaming, insertAfterElement}, ...)
\* with no images.  A streaming message is inserted empty; any other one is
\* rendered, gets its copy and action buttons and its dynamic content.
StaticKids(content) ==
    WithDynamicContent(WithActionButtons(WithCopyButtons(Render(content)), content))
AddMessageToChat(content, sender, streaming, after) ==
    LET e == NextElement
    IN /\ e \in Created
       /\ chatMessages' = InsertInto(chatMessages, after, e)
       /\ el' = [el EXCEPT ![e] =
                    IF streaming
                    THEN Element(sender, "streaming", <<>>)
                    ELSE Element(sender, "static", StaticKids(content))]
       /\ lastAdd' = [new |-> e, after |-> after, before |-> chatMessages]
       /\ lastOp' = Op(e, "add", content, <<>>)

\* addThinkingAnimation(insertAfterElement, elements, isUserNearBottom)
AddThinkingAnimation(after) ==
    LET e == NextElement
    IN /\ e \in Created
       /\ chatMessages' = InsertInto(chatMessages, after, e)
       /\ el' = [el EXCEPT ![e] = Element("thinking", "static", <<Dots>>)]
       /\ lastAdd' = [new |-> e, after |-> after, before |-> chatMessages]
       /\ lastOp' = Op(e, "add", "", <<>>)

\* updateStreamingMessage(messageElement, content, ...): the children it
\* leaves.  The .message-actions child found before the render is put back
\* after it, and a new cursor comes last.
UpdateDroppingActions(kids, content) == Append(Render(content), Cursor)
StreamingKids(kids, content) ==
    LET rendered == Render(content)
        kept == IF HasKid(kids, "actions")
                THEN Append(rendered, FirstKid(kids, "actions"))
                ELSE rendered
    IN Append(kept, Cursor)

UpdateStreamingMessage(e, content) ==
    /\ el[e].kind # "none"
    /\ LET old == el[e]
           kids == StreamingKids(old.kids, content)
       IN /\ el' = [el EXCEPT ![e] =
                       IF old.phase = "streaming"
                       THEN [old EXCEPT !.kids = kids, !.last = content, !.updated = TRUE]
                       ELSE Element(old.kind, "static", kids)]
          /\ lastOp' = Op(e, "update", content, FoundActions(old.kids))
    /\ UNCHANGED <<chatMessages, lastAdd>>

\* finalizeBotMessage(messageElement, finalContent, copy, actions, restore,
\* ...): the steps in the order of the code; `saw` is what the restore
\* callback finds when it is called.
FinalizeRestoringFirst(kids, finalContent) ==
    LET rendered == WithCopyButtons(Render(finalContent))
        done == WithDynamicContent(WithActionButtons(rendered, finalContent))
    IN [kids |-> done, copyCalls |-> CopyCallbackCalls(rendered),
        actionCalls |-> 1, restoreCalls |-> 1, saw |-> kids]
FinalizeSteps(kids, finalContent) ==
    LET uncursored == RemoveFirstKid(kids, "cursor")
        rendered == Render(finalContent)
        buttoned == WithCopyButtons(rendered)
        actioned == WithActionButtons(buttoned, finalContent)
        done == WithDynamicContent(actioned)
    IN [kids |-> done, copyCalls |-> CopyCallbackCalls(rendered),
        actionCalls |-> 1, restoreCalls |-> 1, saw |-> done]

FinalizeBotMessage(e, finalContent) ==
    /\ el[e].kind # "none"
    /\ LET old == el[e]
           f == FinalizeSteps(old.kids, finalContent)
       IN /\ el' = [el EXCEPT ![e] =
                       IF old.phase = "streaming"
                       THEN [old EXCEPT !.phase = "final", !.kids = f.kids,
                                        !.last = finalContent,
                                        !.actionCalls = @ + f.actionCalls,
                                        !.copyCalls = @ + f.copyCalls,
                                        !.restoreCalls = @ + f.restoreCalls,
                                        !.restoreSaw = f.saw]
                       ELSE Element(old.kind, "static", f.kids)]
          /\ lastOp' = Op(e, "finalize", finalContent, FoundActions(old.kids))
    /\ Restore
    /\ UNCHANGED <<chatMessages, lastAdd>>

DoAddMessageToChat ==
    /\ \E content \in Contents, sender \in {"user", "bot"},
          streaming \in BOOLEAN, after \in References :
             \* a streaming insert is made without content
             /\ streaming => content = ""
             /\ AddMessageToChat(content, sender, streaming, after)
    /\ UNCHANGED <<tabVars, copyVars, sendVars, statusVars>>
DoAddThinkingAnimation ==
    /\ \E after \in References : AddThinkingAnimation(after)
    /\ UNCHANGED <<tabVars, copyVars, sendVars, statusVars>>
DoUpdateStreamingMessage ==
    /\ \E e \in Created, content \in Contents : UpdateStreamingMessage(e, content)
    /\ UNCHANGED <<tabVars, copyVars, sendVars, statusVars>>
DoFinalizeBotMessage ==
    /\ \E e \in Created, finalContent \in Contents : FinalizeBotMessage(e, finalContent)
    /\ UNCHANGED <<tabVars, copyVars, statusVars>>
\* A direct call of restoreSendButtonAndInput (an aborted or failed request).
DoRestoreSendButtonAndInput ==
    /\ Restore
    /\ UNCHANGED <<tabVars, copyVars, chatVars, statusVars>>
\* The controller starts a request: the inverse of the restore.
BeginStreaming ==
    /\ ~isStreaming
    /\ isStreaming' = TRUE
    /\ sendButton' = [stop |-> TRUE,
                      title |-> Tr("stopStreamingTitle"),
                      icon |-> "stop",
                      listeners |-> (sendButton.listeners \ {"send"}) \cup {"abort"}]
    /\ abortController' \in
          IF abortController = "absent" THEN {"absent"} ELSE {"null", "controller"}
    /\ lastRestore' = NotRestored
    /\ UNCHANGED <<currentTranslations, documentLang>>
    /\ UNCHANGED <<tabVars, copyVars, chatVars, statusVars>>

\* The controller loads another dictionary (the user changes the language).
LoadTranslations ==
    /\ \E language \in Languages : currentTranslations' = language
    /\ lastRestore' = [lastRestore EXCEPT !.called = FALSE]
    /\ UNCHANGED <<isStreaming, sendButton, abortController, documentLang>>
    /\ UNCHANGED <<tabVars, copyVars, chatVars, statusVars>>

\* updateUIElementsWithTranslations(currentTranslations): skipped with an
\* empty dictionary; otherwise the document's language and the static labels
\* are set from it, among them the title of the send button.
UpdateUIElementsWithTranslations ==
    /\ IF Dictionary(currentTranslations) = [k \in {} |-> ""]
       THEN UNCHANGED <<documentLang, sendButton>>
       ELSE /\ documentLang' = Tr("htmlLang")
            /\ sendButton' = [sendButton EXCEPT !.title = Tr("sendMessageTitle")]
    /\ lastRestore' = [lastRestore EXCEPT !.called = FALSE]
    /\ UNCHANGED <<isStreaming, abortController, currentTranslations>>
    /\ UNCHANGED <<tabVars, copyVars, chatVars, statusVars>>

(***************************************************************************)
(* Status lines, the toast, the textarea, the API key field, and timers.   *)
(***************************************************************************)
\* Most timers pending at once.
MaxTimers == 2
\* Most listener pairs setupAutoresizeTextarea has installed.
MaxListeners == 1
\* Most keys of `elements` that hold an element where some are missing.
MaxPresent == 2

\* The delays of the setTimeout calls, in ms.
ConnectionHideDelay == 3000
ToastDelay == 2000
ChatFadeDelay == 2000
ChatHideDelay == 300
\* The step of the clock, in ms; time also jumps to the next deadline.
Quantum == ChatFadeDelay \div 4
\* min-height and max-height used when the computed style gives none.
DefaultMinHeight == 32
DefaultMaxHeight == 160

ElementKeys ==
    {"connectionStatus", "connectionIndicator", "contextStatus", "userInput",
     "toggleApiKey", "apiKeyInput", "chatStatusMessage"}
Messages == {"m1", "m2"}
ConnectionTypes == {"success", "error", "info"}
ChatStatusTypes == {"success", "error"}
ToastTypes == {"success", "error"}
ContextKeys == {"contextStatusNone", "contextStatusChars"}
ScrollHeights == {20, 100, 200}

StatusSnapshot ==
    <<connectionStatus, connectionIndicator, contextStatus, userInput,
      apiKeyInput, chatStatusMessage, toast, timers>>

\* if (!elements.x) return;  -- for every key the function checks
NoNullCheck(keys) == FALSE
TargetMissing(keys) == \E k \in keys : ~present[k]

\* A call of an exported function: `checked` are the keys its guard tests and
\* `used` the keys it dereferences.  Past the guard, a missing element that
\* is dereferenced raises a TypeError before anything is written.
Call(op, checked, used, Effect) ==
    LET absent == \E k \in checked : ~present[k]
        passed == ~TargetMissing(checked)
        typeError == passed /\ \E k \in used : ~present[k]
    IN /\ lastCall' = [op |-> op, absent |-> absent, threw |-> typeError,
                       pre |-> IF absent THEN StatusSnapshot ELSE <<>>]
       /\ IF passed /\ ~typeError THEN Effect ELSE UNCHANGED statusDom

\* setTimeout(callback, delay): the callback's kind, the message it closed
\* over, the time left, and (history) whether it was set by the latest call
\* that displayed something in its element.
Timer(kind, msg, delay) == [kind |-> kind, msg |-> msg, rem |-> delay, latest |-> TRUE]
Superseded(ts, kinds) ==
    [i \in 1..Len(ts) |-> IF ts[i].kind \in kinds THEN [ts[i] EXCEPT !.latest = FALSE] ELSE ts[i]]
Room(n) == Len(timers) + n <= MaxTimers

\* showConnectionStatus(message, type, elements)
ShowConnectionStatus(message, type) ==
    Call("showConnectionStatus", {"connectionStatus"}, {"connectionStatus"},
         /\ type = "success" => Room(1)
         /\ connectionStatus' = [text |-> message, type |-> type, display |-> "block"]
         /\ timers' = IF type = "success"
                      THEN Append(Superseded(timers, {"hideConnection"}),
                                  Timer("hideConnection", message, ConnectionHideDelay))
                      ELSE Superseded(timers, {"hideConnection"})
         /\ hist' = [hist EXCEPT !.connection = "no"]
         /\ UNCHANGED <<connectionIndicator, contextStatus, userInput, apiKeyInput,
                        chatStatusMessage, toast>>)

\* The 3000 ms callback of showConnectionStatus: what it leaves displayed.
HideWithoutCheck(status, message) == [status EXCEPT !.display = "none"]
HideIfSameMessage(status, message) ==
    IF status.text = message THEN [status EXCEPT !.display = "none"] ELSE status

\* updateConnectionIndicator(isConnected, elements, translations)
UpdateConnectionIndicator(isConnected) ==
    Call("updateConnectionIndicator", {"connectionIndicator"}, {"connectionIndicator"},
         /\ connectionIndicator' =
               [class |-> IF isConnected THEN "connected" ELSE "disconnected",
                text |-> IF isConnected THEN Tr("connectionIndicatorConnected")
                                        ELSE Tr("connectionIndicatorDisconnected")]
         /\ UNCHANGED <<connectionStatus, contextStatus, userInput, apiKeyInput,
                        chatStatusMessage, toast, timers, hist>>)

\* updateContextStatus(key, replacements, elements, translations): the prefix,
\* a blank and the translated status with its replacements.
UpdateContextStatus(key, charCount) ==
    Call("updateContextStatus", {"contextStatus"}, {"contextStatus"},
         /\ contextStatus' = <<Tr("contextStatusPrefix"), " ", Tr(key), charCount>>
         /\ UNCHANGED <<connectionStatus, connectionIndicator, userInput, apiKeyInput,
                        chatStatusMessage, toast, timers, hist>>)

\* resizeTextarea(elements): the height is scrollHeight clamped to the
\* min and max heights, with a scrollbar when the content is taller.
Resized(input) ==
    [input EXCEPT
        !.height = Min(Max(DefaultMinHeight, input.scrollHeight), DefaultMaxHeight),
        !.overflowY = IF input.scrollHeight > DefaultMaxHeight THEN "scroll" ELSE "hidden"]
ResizeTextarea ==
    Call("resizeTextarea", {"userInput"}, {"userInput"},
         /\ userInput' = Resized(userInput)
         /\ UNCHANGED <<connectionStatus, connectionIndicator, contextStatus, apiKeyInput,
                        chatStatusMessage, toast, timers, hist>>)

\* setupAutoresizeTextarea(elements): an input and a paste listener, and the
\* initial resize in a 0 ms timer.
SetupAutoresizeTextarea ==
    Call("setupAutoresizeTextarea", {"userInput"}, {"userInput"},
         /\ userInput.listeners < MaxListeners
         /\ Room(1)
         /\ userInput' = [userInput EXCEPT !.listeners = @ + 1]
         /\ timers' = Append(timers, Timer("resize", "", 0))
         /\ UNCHANGED <<connectionStatus, connectionIndicator, contextStatus, apiKeyInput,
                        chatStatusMessage, toast, hist>>)

\* toggleApiKeyVisibility(elements): the input's type flips and the two eye
\* icons follow it.
ToggleApiKeyVisibility ==
    Call("toggleApiKeyVisibility", {"toggleApiKey", "apiKeyInput"}, {"apiKeyInput"},
         /\ apiKeyInput' =
               LET type == IF apiKeyInput.type = "password" THEN "text" ELSE "password"
               IN [type |-> type,
                   eye |-> IF type = "text" THEN "none" ELSE "inline-block",
                   eyeSlash |-> IF type = "text" THEN "inline-block" ELSE "none"]
         /\ UNCHANGED <<connectionStatus, connectionIndicator, contextStatus, userInput,
                        chatStatusMessage, toast, timers, hist>>)

\* showChatStatusMessage(message, type, elements)
ShowChatStatusMessage(message, type) ==
    Call("showChatStatusMessage", {"chatStatusMessage"}, {"chatStatusMessage"},
         /\ type = "success" => Room(1)
         /\ chatStatusMessage' =
               [text |-> message, type |-> type, display |-> "block",
                opacity |-> "1", transform |-> "translateY(0)"]
         /\ timers' = IF type = "success"
                      THEN Append(Superseded(timers, {"fadeChat", "hideChat"}),
                                  Timer("fadeChat", message, ChatFadeDelay))
                      ELSE Superseded(timers, {"fadeChat", "hideChat"})
         /\ hist' = [hist EXCEPT !.chatType = type]
         /\ UNCHANGED <<connectionStatus, connectionIndicator, contextStatus, userInput,
                        apiKeyInput, toast>>)

\* showToast(message, type): the one .toast element, made on the first call.
ShowToast(message, type) ==
    /\ Room(1)
    /\ toast' = [exists |-> TRUE, text |-> message, type |-> type, show |-> TRUE]
    /\ timers' = Append(Superseded(timers, {"hideToast"}), Timer("hideToast", message, ToastDelay))
    /\ lastCall' = [op |-> "showToast", absent |-> FALSE, threw |-> FALSE, pre |-> <<>>]
    /\ hist' = [hist EXCEPT !.toastMsg = message, !.toastType = type]
    /\ UNCHANGED <<connectionStatus, connectionIndicator, contextStatus, userInput,
                   apiKeyInput, chatStatusMessage>>

\* No call is the last thing that happened.
NoCall == [op |-> "none", absent |-> FALSE, threw |-> FALSE, pre |-> <<>>]

\* A timer whose time is up runs its callback; of several, the oldest first.
Due(i) == timers[i].rem = 0 /\ \A j \in 1..(i - 1) : timers[j].rem # 0
Without(ts, i) == SubSeq(ts, 1, i - 1) \o SubSeq(ts, i + 1, Len(ts))
FireTimer ==
    \E i \in 1..Len(timers) :
        /\ Due(i)
        /\ LET t == timers[i]
           IN CASE t.kind = "hideConnection" ->
                    /\ connectionStatus' = HideIfSameMessage(connectionStatus, t.msg)
                    /\ hist' = IF connectionStatus'.display = "none"
                                    /\ connectionStatus.display # "none"
                                 THEN [hist EXCEPT !.connection =
                                          IF t.latest THEN "own" ELSE "earlier",
                                                     !.by = t.msg]
                                 ELSE hist
                    /\ timers' = Without(timers, i)
                    /\ UNCHANGED <<chatStatusMessage, toast, userInput>>
                [] t.kind = "fadeChat" ->
                    /\ chatStatusMessage' = [chatStatusMessage EXCEPT
                                                !.opacity = "0",
                                                !.transform = "translateY(5px)"]
                    /\ timers' = Append(Without(timers, i),
                                        [kind |-> "hideChat", msg |-> t.msg,
                                         rem |-> ChatHideDelay, latest |-> t.latest])
                    /\ UNCHANGED <<connectionStatus, toast, userInput, hist>>
                [] t.kind = "hideChat" ->
                    /\ chatStatusMessage' =
                          IF chatStatusMessage.text = t.msg
                          THEN [chatStatusMessage EXCEPT !.display = "none"]
                          ELSE chatStatusMessage
                    /\ timers' = Without(timers, i)
                    /\ UNCHANGED <<connectionStatus, toast, userInput, hist>>
                [] t.kind = "hideToast" ->
                    /\ toast' = [toast EXCEPT !.show = FALSE]
                    /\ timers' = Without(timers, i)
                    /\ UNCHANGED <<connectionStatus, chatStatusMessage, userInput, hist>>
                [] t.kind = "resize" ->
                    /\ userInput' = IF present["userInput"] THEN Resized(userInput)
                                    ELSE userInput
                    /\ timers' = Without(timers, i)
                    /\ UNCHANGED <<connectionStatus, chatStatusMessage, toast, hist>>
        /\ lastCall' = NoCall
        /\ UNCHANGED <<present, connectionIndicator, contextStatus, apiKeyInput>>
        /\ UNCHANGED <<tabVars, copyVars, chatVars, sendVars>>

\* Time passes: by the clock's step, or up to the next deadline; never past
\* a deadline.
MinRem == CHOOSE r \in {timers[i].rem : i \in 1..Len(timers)} :
              \A i \in 1..Len(timers) : r <= timers[i].rem
Elapse(d) ==
    /\ timers # <<>>
    /\ d > 0 /\ d <= MinRem
    /\ timers' = [i \in 1..Len(timers) |-> [timers[i] EXCEPT !.rem = @ - d]]
    /\ lastCall' = NoCall
    /\ UNCHANGED <<present, connectionStatus, connectionIndicator, contextStatus,
                   userInput, apiKeyInput, chatStatusMessage, toast, hist>>
    /\ UNCHANGED <<tabVars, copyVars, chatVars, sendVars>>
Tick == Elapse(Quantum)
AdvanceToDeadline == timers # <<>> /\ Elapse(MinRem)

\* The user edits the textarea: its scrollHeight changes and every input
\* listener resizes it.
InputEvent ==
    /\ present["userInput"]
    /\ \E h \in ScrollHeights :
          userInput' = IF userInput.listeners > 0
                       THEN Resized([userInput EXCEPT !.scrollHeight = h])
                       ELSE [userInput EXCEPT !.scrollHeight = h]
    /\ lastCall' = NoCall
    /\ UNCHANGED <<present, connectionStatus, connectionIndicator, contextStatus,
                   apiKeyInput, chatStatusMessage, toast, timers, hist>>
    /\ UNCHANGED <<tabVars, copyVars, chatVars, sendVars>>
\* The user pastes: every paste listener sets a 0 ms timer for the resize.
PasteEvent ==
    /\ present["userInput"]
    /\ userInput.listeners > 0
    /\ Room(userInput.listeners)
    /\ \E h \in ScrollHeights : userInput' = [userInput EXCEPT !.scrollHeight = h]
    /\ timers' = timers \o [i \in 1..userInput.listeners |-> Timer("resize", "", 0)]
    /\ lastCall' = NoCall
    /\ UNCHANGED <<present, connectionStatus, connectionIndicator, contextStatus,
                   apiKeyInput, chatStatusMessage, toast, hist>>
    /\ UNCHANGED <<tabVars, copyVars, chatVars, sendVars>>

Others == <<tabVars, copyVars, chatVars, sendVars, present>>
DoShowConnectionStatus ==
    /\ \E m \in Messages, t \in ConnectionTypes : ShowConnectionStatus(m, t)
    /\ UNCHANGED Others
DoUpdateConnectionIndicator ==
    /\ \E c \in BOOLEAN : UpdateConnectionIndicator(c)
    /\ UNCHANGED Others
DoUpdateContextStatus ==
    /\ \E k \in ContextKeys, n \in {0, 123} : UpdateContextStatus(k, n)
    /\ UNCHANGED Others
DoResizeTextarea == ResizeTextarea /\ UNCHANGED Others
DoSetupAutoresizeTextarea == SetupAutoresizeTextarea /\ UNCHANGED Others
DoToggleApiKeyVisibility == ToggleApiKeyVisibility /\ UNCHANGED Others
DoShowChatStatusMessage ==
    /\ \E m \in Messages, t \in ChatStatusTypes : ShowChatStatusMessage(m, t)
    /\ UNCHANGED Others
DoShowToast ==
    /\ \E m \in Messages, t \in ToastTypes : ShowToast(m, t)
    /\ UNCHANGED Others

(***************************************************************************)
(* Initial states.                                                         *)
(***************************************************************************)
\* The page's markup decides which classes are set at load; none is assumed.
TabsInit ==
    /\ tabActive \in [TabIds -> BOOLEAN]
    /\ contentActive \in [TabIds -> BOOLEAN]
    /\ navActive \in [SubTabIds -> BOOLEAN]
    /\ subActive \in [SubContentIds -> BOOLEAN]
    /\ lastTab = "none"
    /\ lastSub = "none"
TabsIdle ==
    /\ tabActive = [t \in TabIds |-> t = "chat"]
    /\ contentActive = [t \in TabIds |-> t = "chat"]
    /\ navActive = [b \in SubTabIds |-> FALSE]
    /\ subActive = [c \in SubContentIds |-> FALSE]
    /\ lastTab = "none"
    /\ lastSub = "none"

\* "hi" and the empty text, as code units.
CodeTexts == {NoCode, [has |-> TRUE, text |-> <<>>], [has |-> TRUE, text |-> <<104, 105>>]}
DataCodes ==
    {[has |-> FALSE, val |-> <<>>]}
        \cup {[has |-> TRUE, val |-> s] : s \in SeqsUpTo(AttrChars, MaxAttrLen)}
CopyInit ==
    /\ dataCode \in DataCodes
    /\ codeText \in CodeTexts
    /\ copyButtons = 0
    /\ clickCount = 0
    /\ copied = <<>>
    /\ escaped = FALSE
CopyIdle ==
    /\ dataCode = [has |-> FALSE, val |-> <<>>]
    /\ codeText = NoCode
    /\ copyButtons = 0
    /\ clickCount = 0
    /\ copied = <<>>
    /\ escaped = FALSE

\* The chat list starts with the welcome message.
ChatInit ==
    /\ chatMessages = <<Welcome>>
    /\ el = [e \in Created |-> NotCreated]
    /\ lastAdd = [new |-> NoElement, after |-> NoElement, before |-> <<>>]
    /\ lastOp = Op(NoElement, "none", "", <<>>)
ChatIdle == ChatInit
\* The send button as the page's markup has it, before any dictionary is
\* loaded; window.GeminiAPI may be missing.
SendIdle ==
    /\ isStreaming = FALSE
    /\ sendButton = [stop |-> FALSE, title |-> "", icon |-> "send", listeners |-> {"send"}]
    /\ abortController = "null"
    /\ lastRestore = NotRestored
    /\ currentTranslations = "en"
    /\ documentLang = "en"
SendInit ==
    /\ isStreaming = FALSE
    /\ sendButton = [stop |-> FALSE, title |-> "", icon |-> "send", listeners |-> {"send"}]
    /\ abortController \in {"absent", "null"}
    /\ lastRestore = NotRestored
    /\ currentTranslations = "none"
    /\ documentLang = ""
\* A request is under way: the stop button is shown.
SendStreaming ==
    /\ isStreaming = TRUE
    /\ sendButton = [stop |-> TRUE, title |-> "stopStreamingTitle", icon |-> "stop",
                     listeners |-> {"abort"}]
    /\ abortController = "controller"
    /\ lastRestore = NotRestored
    /\ currentTranslations = "en"
    /\ documentLang = "en"

\* Nothing displayed yet, no timer pending; `keys` hold an element.
StatusInit(keys) ==
    /\ present = [k \in ElementKeys |-> k \in keys]
    /\ connectionStatus = [text |-> "", type |-> "", display |-> ""]
    /\ connectionIndicator = [class |-> "", text |-> ""]
    /\ contextStatus = <<>>
    /\ userInput = [scrollHeight |-> 20, height |-> 0, overflowY |-> "", listeners |-> 0]
    /\ apiKeyInput = [type |-> "password", eye |-> "", eyeSlash |-> ""]
    /\ chatStatusMessage = [text |-> "", type |-> "", display |-> "",
                            opacity |-> "", transform |-> ""]
    /\ toast = [exists |-> FALSE, text |-> "", type |-> "", show |-> FALSE]
    /\ timers = <<>>
    /\ hist = [connection |-> "no", by |-> "", chatType |-> "", toastMsg |-> "",
               toastType |-> ""]
    /\ lastCall = NoCall
StatusIdle == StatusInit(ElementKeys)

(***************************************************************************)
(* Specifications.                                                         *)
(***************************************************************************)
InitTabs == TabsInit /\ CopyIdle /\ ChatIdle /\ SendIdle /\ StatusIdle
NextTabs == DoSwitchTab \/ DoSwitchSettingsSubTab
SpecTabs == InitTabs /\ [][NextTabs]_vars

InitSend == TabsIdle /\ CopyIdle /\ ChatIdle /\ SendInit /\ StatusIdle
NextSend ==
    \/ BeginStreaming
    \/ DoRestoreSendButtonAndInput
    \/ LoadTranslations
    \/ UpdateUIElementsWithTranslations
SpecSend == InitSend /\ [][NextSend]_vars

InitCopy == TabsIdle /\ CopyInit /\ ChatIdle /\ SendIdle /\ StatusIdle
NextCopy == AddCopyButtonToCodeBlock \/ ClickCopyButton
SpecCopy == InitCopy /\ [][NextCopy]_vars

InitChat == TabsIdle /\ CopyIdle /\ ChatInit /\ SendStreaming /\ StatusIdle
NextChat ==
    \/ DoAddMessageToChat
    \/ DoAddThinkingAnimation
    \/ DoUpdateStreamingMessage
    \/ DoFinalizeBotMessage
SpecChat == InitChat /\ [][NextChat]_vars

Elsewhere == TabsIdle /\ CopyIdle /\ ChatIdle /\ SendIdle
InitToast == Elsewhere /\ StatusIdle
NextToast == DoShowToast \/ FireTimer \/ Tick \/ AdvanceToDeadline
SpecToast == InitToast /\ [][NextToast]_vars

InitConnection == Elsewhere /\ StatusIdle
NextConnection == DoShowConnectionStatus \/ FireTimer \/ Tick \/ AdvanceToDeadline
SpecConnection == InitConnection /\ [][NextConnection]_vars

InitChatStatus == Elsewhere /\ StatusIdle
NextChatStatus == DoShowChatStatusMessage \/ FireTimer \/ Tick \/ AdvanceToDeadline
SpecChatStatus == InitChatStatus /\ [][NextChatStatus]_vars

\* Keys of `elements` are missing: all but a few, in every combination.
InitElements ==
    /\ Elsewhere
    /\ \E keys \in SUBSET ElementKeys :
          Cardinality(keys) <= MaxPresent /\ StatusInit(keys)
NextElements ==
    \/ DoShowConnectionStatus
    \/ DoUpdateConnectionIndicator
    \/ DoUpdateContextStatus
    \/ DoResizeTextarea
    \/ DoSetupAutoresizeTextarea
    \/ DoToggleApiKeyVisibility
    \/ DoShowChatStatusMessage
    \/ InputEvent
    \/ PasteEvent
    \/ FireTimer
SpecElements == InitElements /\ [][NextElements]_vars

(***************************************************************************)
(* C1: after switchTab(X) a tab button and a tab panel are active iff      *)
(* their data-tab / id is X, and after switchSettingsSubTab(S) a nav       *)
(* button is active iff its data-subtab is S and a sub-content iff its id  *)
(* is 'settings-' + S, whatever calls came before.                         *)
(***************************************************************************)
ExactlyActiveTab ==
    /\ lastTab # "none" =>
          /\ \A t \in TabIds : tabActive[t] <=> (t = lastTab)
          /\ \A c \in TabIds : contentActive[c] <=> (c = lastTab)
    /\ lastSub # "none" =>
          /\ \A b \in SubTabIds : navActive[b] <=> (b = lastSub)
          /\ \A c \in SubContentIds : subActive[c] <=> (c = "settings-" \o lastSub)
\* switchTab('chat') after the settings tab and a sub-tab had been shown.
ExactlyActiveTabWitness ==
    /\ lastTab = "chat" /\ lastSub = "agent"
    /\ tabActive["chat"] /\ ~tabActive["settings"]
    /\ navActive["agent"] /\ subActive["settings-agent"]

(***************************************************************************)
(* C2: every click of the copy button calls the copy callback exactly      *)
(* once; the text is the decoded data-code attribute when it is present,   *)
(* non-empty and decodes, and otherwise the <code> element's text (or the  *)
(* empty string without one); a decoding error never leaves the handler.   *)
(***************************************************************************)
ExpectedCopyText ==
    IF dataCode.has /\ dataCode.val # <<>> /\ DecodeDataCode(dataCode.val).ok
    THEN DecodeDataCode(dataCode.val).val
    ELSE IF codeText.has THEN codeText.text ELSE <<>>
CopyCallbackOncePerClick ==
    /\ Len(copied) = clickCount
    /\ ~escaped
    /\ \A i \in 1..Len(copied) : copied[i] = ExpectedCopyText
\* A click on a block whose data-code ("JQ==", i.e. "%") makes
\* decodeURIComponent throw: the visible text "hi" is copied.
CopyFallbackWitness ==
    /\ dataCode = [has |-> TRUE, val |-> <<"J", "Q", "=", "=">>]
    /\ codeText = [has |-> TRUE, text |-> <<104, 105>>]
    /\ clickCount = 2
    /\ copied = <<<<104, 105>>, <<104, 105>>>>

(***************************************************************************)
(* C5: in the lifecycle addMessageToChat(isStreaming) -> update* ->        *)
(* finalizeBotMessage on one element: while it streams neither the action  *)
(* buttons callback nor restore has been called; after the finalize the    *)
(* element has no cursor, its content is the render of finalContent, each  *)
(* code block got the copy callback once, the action buttons callback was  *)
(* called once (with finalContent) and restore once, after the rendering.  *)
(***************************************************************************)
HtmlKids(kids) == SelectSeq(kids, LAMBDA k : k.t = "html")
StreamingLifecycle ==
    \A e \in Created :
        /\ el[e].phase = "streaming" =>
              /\ el[e].actionCalls = 0
              /\ el[e].restoreCalls = 0
              /\ ~HasKid(el[e].kids, "actions")
        /\ el[e].phase = "final" =>
              /\ ~HasKid(el[e].kids, "cursor")
              /\ HtmlKids(el[e].kids) = WithDynamicContent(WithCopyButtons(Render(el[e].last)))
              /\ el[e].copyCalls = CodeBlocksOf(el[e].last)
              /\ el[e].actionCalls = 1
              /\ CountKids(el[e].kids, "actions") = 1
              /\ FirstKid(el[e].kids, "actions").src = el[e].last
              /\ el[e].restoreCalls = 1
              /\ el[e].restoreSaw = el[e].kids
\* A message streamed with at least one update and finalized with "b",
\* which has two code blocks.
StreamingLifecycleWitness ==
    \E e \in Created :
        /\ el[e].phase = "final" /\ el[e].updated
        /\ el[e].last = "b" /\ el[e].copyCalls = 2
        /\ lastRestore.called /\ lastRestore.ran

(***************************************************************************)
(* C6: restoreSendButtonAndInput changes nothing when state.isStreaming is *)
(* false; when it is true it clears isStreaming and the 'stop-streaming'   *)
(* class, removes the abort listener, attaches the send listener and       *)
(* leaves no current abort controller.  A second call right after a first  *)
(* is a no-op and the send listener is attached at most once per request.  *)
(***************************************************************************)
RestoreIsGuarded ==
    /\ lastRestore.attaches <= 1
    /\ lastRestore.called =>
          IF lastRestore.pre.streaming
          THEN /\ lastRestore.ran
               /\ ~isStreaming
               /\ ~sendButton.stop
               /\ "abort" \notin sendButton.listeners
               /\ "send" \in sendButton.listeners
               /\ abortController # "controller"
               /\ lastRestore.pre.ctrl = "controller" => abortController = "null"
          ELSE /\ ~lastRestore.ran
               /\ SendState = lastRestore.pre
\* The second of two restore calls in a row, after a request that had an
\* abort controller.
RestoreIsGuardedWitness ==
    /\ lastRestore.called /\ ~lastRestore.pre.streaming
    /\ lastRestore.attaches = 1
    /\ abortController = "null"

(***************************************************************************)
(* C7: addMessageToChat and addThinkingAnimation add exactly one child to  *)
(* the chat list and keep the order of the others; the new element is the  *)
(* next sibling of insertAfterElement when that is a child of the list,    *)
(* and the last child otherwise.                                           *)
(***************************************************************************)
InsertedInPlace ==
    lastAdd.new # NoElement =>
        LET n == Len(chatMessages)
            at == IndexOf(chatMessages, lastAdd.new)
        IN /\ n = Len(lastAdd.before) + 1
           /\ Cardinality({i \in 1..n : chatMessages[i] = lastAdd.new}) = 1
           /\ SelectSeq(chatMessages, LAMBDA x : x # lastAdd.new) = lastAdd.before
           /\ IF lastAdd.after # NoElement /\ IsChild(lastAdd.before, lastAdd.after)
              THEN at > 1 /\ chatMessages[at - 1] = lastAdd.after
              ELSE at = n
\* A message inserted after the welcome message, in front of an older one.
InsertedInPlaceWitness ==
    /\ lastAdd.after = Welcome
    /\ Len(chatMessages) = 3
    /\ chatMessages[1] = Welcome /\ chatMessages[2] = lastAdd.new

(***************************************************************************)
(* C8: after every updateStreamingMessage call the element has exactly one *)
(* cursor, as its last child; a .message-actions child it had before the   *)
(* call is still there, after the rendered content and before the cursor.  *)
(***************************************************************************)
OneCursorLast ==
    lastOp.op = "update" =>
        LET kids == el[lastOp.e].kids
        IN /\ CountKids(kids, "cursor") = 1
           /\ kids[Len(kids)] = Cursor
           /\ lastOp.found # <<>> =>
                 kids = Render(lastOp.content) \o lastOp.found \o <<Cursor>>
\* An update, after an earlier one, of an element whose action buttons were
\* made for another content.
OneCursorLastWitness ==
    /\ lastOp.op = "update" /\ lastOp.content = "a"
    /\ lastOp.found = <<Actions("b")>>
    /\ el[lastOp.e].kids = <<Html("a"), Actions("b"), Cursor>>

(***************************************************************************)
(* C3: a call whose target element is missing from `elements` returns      *)
(* without an error, changes nothing on the page and sets no timer; for    *)
(* showConnectionStatus, updateConnectionIndicator, updateContextStatus,   *)
(* resizeTextarea, setupAutoresizeTextarea, toggleApiKeyVisibility (either *)
(* of its two elements) and showChatStatusMessage.                         *)
(***************************************************************************)
NullTargetsAreNoOps ==
    lastCall.absent =>
        /\ ~lastCall.threw
        /\ StatusSnapshot = lastCall.pre

\* toggleApiKeyVisibility was called with the input there but the toggle
\* button missing.
NullTargetsAreNoOpsWitness ==
    /\ lastCall.op = "toggleApiKeyVisibility"
    /\ lastCall.absent
    /\ present["apiKeyInput"]
    /\ ~present["toggleApiKey"]

(***************************************************************************)
(* C4: the toast shows the message and type of the latest showToast call   *)
(* and keeps the class 'show' until the timer of that call fires; the      *)
(* timer of an earlier call does not hide it.  Stated for the time that    *)
(* call's own timer still has left to run.                                 *)
(***************************************************************************)
ToastShownUntilOwnTimer ==
    hist.toastMsg # "" =>
        /\ toast.text = hist.toastMsg
        /\ toast.type = hist.toastType
        /\ (\E i \in 1..Len(timers) :
                  timers[i].kind = "hideToast" /\ timers[i].latest /\ timers[i].rem > 0)
              => toast.show

(***************************************************************************)
(* C9, as stated: the status is hidden only by the timer of the success    *)
(* call that displayed it; never by the timer of an earlier call, and an   *)
(* 'error' or 'info' status is never hidden.                               *)
(***************************************************************************)
ConnectionHiddenOnlyByOwnTimer ==
    /\ connectionStatus.display = "none" => hist.connection = "own"
    /\ connectionStatus.type \in {"error", "info"} => connectionStatus.display # "none"

(***************************************************************************)
(* C9, amended: the timer of a success call hides the status only if the   *)
(* text displayed equals the message of that call; so a status is hidden   *)
(* by the timer of the call that displayed it or of an earlier success     *)
(* call with the same message, and an 'error' or 'info' status only by the *)
(* latter.                                                                 *)
(***************************************************************************)
ConnectionHiddenOnlyOnSameMessage ==
    connectionStatus.display = "none" =>
        /\ hist.connection \in {"own", "earlier"}
        /\ hist.by = connectionStatus.text
        /\ connectionStatus.type \in {"error", "info"} => hist.connection = "earlier"

\* An 'error' status was hidden by the timer of an earlier success call with
\* the same message.
ConnectionHiddenOnlyOnSameMessageWitness ==
    /\ connectionStatus.display = "none"
    /\ connectionStatus.type = "error"
    /\ hist.connection = "earlier"

(***************************************************************************)
(* C10: a chat status message stays fully visible until its own fade-out:  *)
(* while the 2000 ms timer of the call that displayed it has time left,    *)
(* and for good when its type is 'error', it has display 'block', opacity  *)
(* '1' and transform 'translateY(0)'.                                      *)
(***************************************************************************)
ChatStatusStaysVisible ==
    (\/ hist.chatType = "error"
     \/ \E i \in 1..Len(timers) :
           timers[i].kind = "fadeChat" /\ timers[i].latest /\ timers[i].rem > 0)
        => /\ chatStatusMessage.display = "block"
           /\ chatStatusMessage.opacity = "1"
           /\ chatStatusMessage.transform = "translateY(0)"

====
